---------------------------- MODULE Spec2Model ----------------------------
(***************************************************************************)
(* Model of the bill-extraction endpoint extract_bill_data of app.py and   *)
(* of its token-tracking variant app1.py: the per-page model call, the     *)
(* fence stripping and JSON repair applied to the model's text, the        *)
(* line-item normalization and the assembly of the response.               *)
(*                                                                         *)
(* Texts are TLA+ strings and are processed character by character, as the *)
(* Python string methods, the two regular expressions and json.loads do.   *)
(* Numbers are exact decimals [m, k] standing for m / 10^k; negative zero  *)
(* is not kept apart from zero, to which Python holds it equal.            *)
(*                                                                         *)
(* A local name of the code that is read several times is a parameter of   *)
(* an operator here: "x = f(a); g(x, x)" is F(a) == G(f(a)) with           *)
(* G(x) == g(x, x).                                                        *)
(***************************************************************************)
EXTENDS Integers, Sequences, FiniteSets, TLC

(***************************************************************************)
(* Characters and Python string methods                                    *)
(***************************************************************************)

\* s[i] (1-based), or "" when i is outside the string.
Char(s, i) == IF i >= 1 /\ i <= Len(s) THEN SubSeq(s, i, i) ELSE ""

\* Whether p occurs in s at position i.
At(s, i, p) == i + Len(p) - 1 <= Len(s) /\ SubSeq(s, i, i + Len(p) - 1) = p

\* Two characters cannot be written in a TLA+ string. "@" stands for "\x00"
\* and "'" stands for the backtick; the model's texts contain them only
\* where a NUL and a backtick are meant.
NUL == "@"

\* The three backticks of a fenced code block.
Fence == "'''"

\* str.strip() and the regular expression class \s (the members that occur
\* in the model's texts).
PyWhitespace == {" ", "\t", "\n", "\r", "\f"}

\* The whitespace json.loads skips between tokens.
JsonWhitespace == {" ", "\t", "\n", "\r"}

\* Characters below 0x20, which json.loads (strict) rejects inside a string.
ControlChars == {"\t", "\n", "\r", "\f", NUL}

Digits == "0123456789"

IsDigit(c) == \E d \in 1..10 : Char(Digits, d) = c

DigitVal(c) == (CHOOSE d \in 1..10 : Char(Digits, d) = c) - 1

RECURSIVE LStrip(_)
LStrip(s) ==
    IF Len(s) > 0 /\ Char(s, 1) \in PyWhitespace THEN LStrip(SubSeq(s, 2, Len(s))) ELSE s

RECURSIVE RStrip(_)
RStrip(s) ==
    IF Len(s) > 0 /\ Char(s, Len(s)) \in PyWhitespace
    THEN RStrip(SubSeq(s, 1, Len(s) - 1))
    ELSE s

\* str.strip()
Strip(s) == RStrip(LStrip(s))

\* The least member of a set of positions, or none when the set is empty.
MinOr(S, none) == IF S = {} THEN none ELSE CHOOSE x \in S : \A y \in S : x <= y

\* The greatest member of a set of positions, or none when the set is empty.
MaxOr(S, none) == IF S = {} THEN none ELSE CHOOSE x \in S : \A y \in S : x >= y

\* The first position at or after from where p occurs in s, or 0.
NextMatch(s, from, p) == MinOr({i \in from..Len(s) : At(s, i, p)}, 0)

RECURSIVE ReplaceFrom(_, _, _, _)

\* i is the next occurrence of old, or 0.
ReplaceAt(s, from, old, new, i) ==
    IF i = 0 THEN SubSeq(s, from, Len(s))
    ELSE SubSeq(s, from, i - 1) \o new \o ReplaceFrom(s, i + Len(old), old, new)

ReplaceFrom(s, from, old, new) == ReplaceAt(s, from, old, new, NextMatch(s, from, old))

\* str.replace(old, new): every non-overlapping occurrence, left to right.
Replace(s, old, new) == ReplaceFrom(s, 1, old, new)

\* str.find(c): 0-based index of the first occurrence, or -1.
Find(s, c) == MinOr({i \in 1..Len(s) : Char(s, i) = c}, 0) - 1

\* str.rfind(c): 0-based index of the last occurrence, or -1.
RFind(s, c) == MaxOr({i \in 1..Len(s) : Char(s, i) = c}, 0) - 1

\* An index of a slice, as Python brings it into 0 .. len(s).
SliceIndex(s, i) ==
    IF i < 0 THEN (IF i + Len(s) < 0 THEN 0 ELSE i + Len(s))
    ELSE IF i > Len(s) THEN Len(s) ELSE i

\* s[start:end]
PySlice(s, start, end) == SubSeq(s, SliceIndex(s, start) + 1, SliceIndex(s, end))

\* re.sub(r"^json", "", s, flags=re.IGNORECASE)
StripLeadingJsonTag(s) ==
    IF /\ Len(s) >= 4
       /\ Char(s, 1) \in {"j", "J"}
       /\ Char(s, 2) \in {"s", "S"}
       /\ Char(s, 3) \in {"o", "O"}
       /\ Char(s, 4) \in {"n", "N"}
    THEN SubSeq(s, 5, Len(s))
    ELSE s

\* The position after the run of whitespace (\s*) that starts at i.
RECURSIVE SpaceEnd(_, _)
SpaceEnd(s, i) == IF Char(s, i) \in PyWhitespace THEN SpaceEnd(s, i + 1) ELSE i

\* The first position at or after from of a match of ,\s*X, or 0.
NextCommaBefore(s, from, closer) ==
    MinOr({i \in from..Len(s) : Char(s, i) = "," /\ Char(s, SpaceEnd(s, i + 1)) = closer}, 0)

RECURSIVE RemoveCommaFrom(_, _, _)

\* i is the comma of the next match, or 0; j is the position of its closer.
RemoveCommaAt(s, from, closer, i, j) ==
    IF i = 0 THEN SubSeq(s, from, Len(s))
    ELSE SubSeq(s, from, i - 1) \o closer \o RemoveCommaFrom(s, j + 1, closer)

RemoveCommaFrom(s, from, closer) ==
    RemoveCommaAt(s, from, closer, NextCommaBefore(s, from, closer),
                  SpaceEnd(s, NextCommaBefore(s, from, closer) + 1))

\* re.sub(r",\s*X", "X", s) for a closing character X: a comma, the longest
\* run of whitespace after it and X are replaced by X, wherever they occur.
RemoveCommaBefore(s, closer) == RemoveCommaFrom(s, 1, closer)

(***************************************************************************)
(* Numbers: the exact decimal m / 10^k, kept with no trailing zero digit   *)
(***************************************************************************)

RECURSIVE Dec(_, _)
Dec(m, k) == IF k > 0 /\ m % 10 = 0 THEN Dec(m \div 10, k - 1) ELSE [m |-> m, k |-> k]

Zero == [m |-> 0, k |-> 0]

\* d, or -d when neg.
Signed(neg, d) == IF neg THEN [m |-> 0 - d.m, k |-> d.k] ELSE d

Abs(n) == IF n < 0 THEN 0 - n ELSE n

RECURSIVE Pow10(_)
Pow10(k) == IF k = 0 THEN 1 ELSE 10 * Pow10(k - 1)

(***************************************************************************)
(* JSON values as json.loads builds them: dict (keys in insertion order),  *)
(* list, str, int, float, True, False, None                                *)
(***************************************************************************)

JV(t, n, s, keys, kids) == [t |-> t, n |-> n, s |-> s, keys |-> keys, kids |-> kids]

JNull == JV("null", Zero, "", <<>>, <<>>)

JBool(b) == JV(IF b THEN "true" ELSE "false", Zero, "", <<>>, <<>>)

JInt(d) == JV("int", d, "", <<>>, <<>>)

JFloat(d) == JV("float", d, "", <<>>, <<>>)

JStr(s) == JV("str", Zero, s, <<>>, <<>>)

JArr(kids) == JV("arr", Zero, "", <<>>, kids)

JObj(keys, kids) == JV("obj", Zero, "", keys, kids)

HasKey(obj, key) == \E i \in 1..Len(obj.keys) : obj.keys[i] = key

KeyIndex(obj, key) == CHOOSE i \in 1..Len(obj.keys) : obj.keys[i] = key

\* dict[key] = value: a key already present keeps its place and takes the
\* new value.
SetKey(obj, key, value) ==
    IF HasKey(obj, key)
    THEN JObj(obj.keys, [obj.kids EXCEPT ![KeyIndex(obj, key)] = value])
    ELSE JObj(Append(obj.keys, key), Append(obj.kids, value))

\* dict.get(key, default)
Get(obj, key, default) == IF HasKey(obj, key) THEN obj.kids[KeyIndex(obj, key)] ELSE default

(***************************************************************************)
(* json.loads                                                              *)
(***************************************************************************)

\* The outcome of a scanning step: the value and the position after it, or
\* the message of the JSONDecodeError (without its line and column).
Ok(v, i) == [ok |-> TRUE, v |-> v, i |-> i, err |-> ""]

Fail(err) == [ok |-> FALSE, v |-> JNull, i |-> 0, err |-> err]

RECURSIVE SkipWs(_, _)
SkipWs(s, i) == IF Char(s, i) \in JsonWhitespace THEN SkipWs(s, i + 1) ELSE i

\* The escapes of a JSON string (\b and \uXXXX do not occur in the texts).
Escapes == {"\"", "\\", "/", "n", "t", "r", "f"}

Unescape(e) ==
    CASE e = "\"" -> "\""
      [] e = "\\" -> "\\"
      [] e = "/" -> "/"
      [] e = "n" -> "\n"
      [] e = "t" -> "\t"
      [] e = "r" -> "\r"
      [] e = "f" -> "\f"

\* The first position at or after i of a character that ends a run of
\* plain string content: the quote, the backslash, a control character.
NextSpecial(s, i) ==
    MinOr({j \in i..Len(s) : Char(s, j) \in ({"\"", "\\"} \cup ControlChars)}, Len(s) + 1)

RECURSIVE ScanString(_, _, _)

\* j is the next special character; content is the string read up to it.
ScanStringAt(s, j, content) ==
    IF j > Len(s) THEN Fail("Unterminated string starting at")
    ELSE IF Char(s, j) = "\"" THEN Ok(JStr(content), j + 1)
    ELSE IF Char(s, j) \in ControlChars THEN Fail("Invalid control character at")
    ELSE IF j + 1 > Len(s) THEN Fail("Unterminated string starting at")
    ELSE IF Char(s, j + 1) \in Escapes
    THEN ScanString(s, j + 2, content \o Unescape(Char(s, j + 1)))
    ELSE Fail("Invalid \\escape")

\* py_scanstring: i is the position after the opening quote; acc is the
\* content read so far.
ScanString(s, i, acc) ==
    ScanStringAt(s, NextSpecial(s, i), acc \o SubSeq(s, i, NextSpecial(s, i) - 1))

\* The position after the run of digits that starts at i.
RECURSIVE DigitsEnd(_, _)
DigitsEnd(s, i) == IF IsDigit(Char(s, i)) THEN DigitsEnd(s, i + 1) ELSE i

\* The number written by the digits at positions a .. b-1, after acc.
RECURSIVE DigitsValue(_, _, _, _)
DigitsValue(s, a, b, acc) ==
    IF a >= b THEN acc ELSE DigitsValue(s, a + 1, b, acc * 10 + DigitVal(Char(s, a)))

\* The digits of the integer part are at a .. b-1, those of a fraction
\* from b+1 on.
ScanInteger(s, neg, a, b) ==
    IF Char(s, b) = "." /\ IsDigit(Char(s, b + 1))
    THEN Ok(JFloat(Signed(neg, Dec(DigitsValue(s, b + 1, DigitsEnd(s, b + 1),
                                               DigitsValue(s, a, b, 0)),
                                   DigitsEnd(s, b + 1) - (b + 1)))),
            DigitsEnd(s, b + 1))
    ELSE Ok(JInt(Signed(neg, Dec(DigitsValue(s, a, b, 0), 0))), b)

ScanDigits(s, neg, a) ==
    IF ~IsDigit(Char(s, a)) THEN Fail("Expecting value")
    ELSE ScanInteger(s, neg, a, IF Char(s, a) = "0" THEN a + 1 ELSE DigitsEnd(s, a))

\* NUMBER_RE = (-?(?:0|[1-9]\d*))(\.\d+)?  (no exponent occurs in the texts)
ScanNumber(s, i) == IF Char(s, i) = "-" THEN ScanDigits(s, TRUE, i + 1) ELSE ScanDigits(s, FALSE, i)

RECURSIVE ScanValue(_, _)
RECURSIVE ScanMembers(_, _, _)
RECURSIVE ScanElements(_, _, _)

\* e is the position after a member and the whitespace that follows it.
ScanAfterMember(s, e, obj) ==
    IF Char(s, e) = "}" THEN Ok(obj, e + 1)
    ELSE IF Char(s, e) # "," THEN Fail("Expecting ',' delimiter")
    ELSE IF Char(s, SkipWs(s, e + 1)) # "\""
    THEN Fail("Expecting property name enclosed in double quotes")
    ELSE ScanMembers(s, SkipWs(s, e + 1), obj)

ScanMemberValue(s, obj, key, val) ==
    IF ~val.ok THEN val ELSE ScanAfterMember(s, SkipWs(s, val.i), SetKey(obj, key, val.v))

ScanColon(s, obj, key, colon) ==
    IF Char(s, colon) # ":" THEN Fail("Expecting ':' delimiter")
    ELSE ScanMemberValue(s, obj, key, ScanValue(s, SkipWs(s, colon + 1)))

ScanKey(s, obj, key) == IF ~key.ok THEN key ELSE ScanColon(s, obj, key.v.s, SkipWs(s, key.i))

\* j is the position of the opening quote of the next key.
ScanMembers(s, j, obj) == ScanKey(s, obj, ScanString(s, j + 1, ""))

\* JSONObject: j is the position after "{" and the whitespace after it.
ScanObject(s, j) ==
    IF Char(s, j) = "}" THEN Ok(JObj(<<>>, <<>>), j + 1)
    ELSE IF Char(s, j) # "\"" THEN Fail("Expecting property name enclosed in double quotes")
    ELSE ScanMembers(s, j, JObj(<<>>, <<>>))

\* e is the position after an element and the whitespace that follows it.
ScanAfterElement(s, e, kids) ==
    IF Char(s, e) = "]" THEN Ok(JArr(kids), e + 1)
    ELSE IF Char(s, e) # "," THEN Fail("Expecting ',' delimiter")
    ELSE ScanElements(s, SkipWs(s, e + 1), kids)

ScanElement(s, kids, val) ==
    IF ~val.ok THEN val ELSE ScanAfterElement(s, SkipWs(s, val.i), Append(kids, val.v))

\* j is the position of the next element.
ScanElements(s, j, kids) == ScanElement(s, kids, ScanValue(s, j))

\* JSONArray: j is the position after "[" and the whitespace after it.
ScanArray(s, j) == IF Char(s, j) = "]" THEN Ok(JArr(<<>>), j + 1) ELSE ScanElements(s, j, <<>>)

\* scan_once (NaN and Infinity do not occur in the texts)
ScanValue(s, i) ==
    IF Char(s, i) = "\"" THEN ScanString(s, i + 1, "")
    ELSE IF Char(s, i) = "{" THEN ScanObject(s, SkipWs(s, i + 1))
    ELSE IF Char(s, i) = "[" THEN ScanArray(s, SkipWs(s, i + 1))
    ELSE IF At(s, i, "null") THEN Ok(JNull, i + 4)
    ELSE IF At(s, i, "true") THEN Ok(JBool(TRUE), i + 4)
    ELSE IF At(s, i, "false") THEN Ok(JBool(FALSE), i + 5)
    ELSE ScanNumber(s, i)

\* After the value only whitespace may follow.
ScanEnd(s, r) ==
    IF ~r.ok THEN r
    ELSE IF SkipWs(s, r.i) # Len(s) + 1 THEN Fail("Extra data")
    ELSE r

\* json.loads(s): one value, whitespace around it, nothing else.
JsonLoads(s) == ScanEnd(s, ScanValue(s, SkipWs(s, 1)))

(***************************************************************************)
(* The parsing steps of one page call                                      *)
(***************************************************************************)

\* raw = response.text.strip(), the two replace calls that drop the fence
\* markers, and the re.sub that drops a leading "json".
StripFences(text) ==
    Strip(StripLeadingJsonTag(
        Strip(Replace(Replace(Strip(text), Fence \o "json", ""), Fence, ""))))

\* The except branch up to its json.loads: the slice from the first "{" to
\* the last "}", without NULs and without commas before "}" and "]".
RepairText(raw) ==
    RemoveCommaBefore(
        RemoveCommaBefore(
            Replace(PySlice(raw, Find(raw, "{"), RFind(raw, "}") + 1), NUL, ""),
            "}"),
        "]")

\* try: parsed = json.loads(raw)  except: ... parsed = json.loads(cleaned)
ParseRaw(raw) == IF JsonLoads(raw).ok THEN JsonLoads(raw) ELSE JsonLoads(RepairText(raw))

\* From response.text to parsed, or to the exception json.loads raised.
ParseModelText(text) == ParseRaw(StripFences(text))

(***************************************************************************)
(* str(), float() and the two-decimal formatting                           *)
(***************************************************************************)

\* The decimal digits of a natural number.
RECURSIVE NatStr(_)
NatStr(n) ==
    IF n < 10 THEN Char(Digits, n + 1)
    ELSE NatStr(n \div 10) \o Char(Digits, (n % 10) + 1)

\* The digits of n, with zeros in front up to the given width.
RECURSIVE Padded(_, _)
Padded(n, width) == IF Len(NatStr(n)) >= width THEN NatStr(n) ELSE "0" \o Padded(n, width - 1)

\* str() of an int or of a float (no exponent form occurs for the values
\* of the texts): "5", "-3", "1200.5", "5.0".
NumStr(v) ==
    (IF v.n.m < 0 THEN "-" ELSE "")
    \o (IF v.n.k = 0
        THEN NatStr(Abs(v.n.m)) \o (IF v.t = "float" THEN ".0" ELSE "")
        ELSE NatStr(Abs(v.n.m) \div Pow10(v.n.k)) \o "."
                 \o Padded(Abs(v.n.m) % Pow10(v.n.k), v.n.k))

TypeName(v) ==
    CASE v.t = "obj" -> "dict"
      [] v.t = "arr" -> "list"
      [] v.t = "str" -> "str"
      [] v.t = "int" -> "int"
      [] v.t = "float" -> "float"
      [] v.t \in {"true", "false"} -> "bool"
      [] v.t = "null" -> "NoneType"

\* str(v). Of a list and of a dict only the shape is kept: "[" or "{", the
\* str() of the elements, "]" or "}".
RECURSIVE PyStr(_)
RECURSIVE PyStrAll(_, _)
PyStr(v) ==
    CASE v.t = "str" -> v.s
      [] v.t \in {"int", "float"} -> NumStr(v)
      [] v.t = "true" -> "True"
      [] v.t = "false" -> "False"
      [] v.t = "null" -> "None"
      [] v.t = "arr" -> "[" \o PyStrAll(v.kids, 1) \o "]"
      [] v.t = "obj" -> "{" \o PyStrAll(v.kids, 1) \o "}"

PyStrAll(kids, i) ==
    IF i > Len(kids) THEN ""
    ELSE PyStr(kids[i]) \o (IF i < Len(kids) THEN ", " ELSE "") \o PyStrAll(kids, i + 1)

\* A value, or the message of the exception raised instead of it.
Val(v) == [ok |-> TRUE, v |-> v, err |-> ""]

Raise(err) == [ok |-> FALSE, v |-> <<>>, err |-> err]

\* The digits before the point are at a .. b-1, the frac digits after it
\* end before c; the text must end there and hold a digit.
FloatValue(t, a, b, c, frac) ==
    IF (b - a) + frac = 0 \/ c # Len(t) + 1
    THEN Raise("could not convert string to float")
    ELSE Val(Signed(Char(t, 1) = "-",
                    Dec(DigitsValue(t, b + 1, c, DigitsValue(t, a, b, 0)), frac)))

FloatPoint(t, a, b) ==
    IF Char(t, b) = "."
    THEN FloatValue(t, a, b, DigitsEnd(t, b + 1), DigitsEnd(t, b + 1) - (b + 1))
    ELSE FloatValue(t, a, b, b, 0)

\* t is the stripped text; a sign may stand before the digits.
FloatSigned(t) ==
    IF Char(t, 1) \in {"+", "-"} THEN FloatPoint(t, 2, DigitsEnd(t, 2))
    ELSE FloatPoint(t, 1, DigitsEnd(t, 1))

\* float(s): surrounding whitespace, a sign, digits with an optional
\* fraction (exponents, underscores, inf and nan do not occur in the texts).
PyFloat(s) == FloatSigned(Strip(s))

\* The decimals with three or more fraction digits, among those of the
\* texts, that lie halfway between two hundredths and whose nearest double
\* is greater than the decimal: "%.2f" rounds them up (0.005 gives "0.01").
DoublesAbove == {Dec(5, 3), Dec(25, 3), Dec(35, 3)}

\* A decimal that a double holds exactly (a multiple of 1/8 here).
IsExactDouble(d) == d.k <= 3 /\ (d.m * Pow10(3 - d.k)) % 125 = 0

\* q0 hundredths and r / div of a hundredth: the nearest hundredth; a
\* double exactly halfway goes to the even one.
RoundHalf(d, q0, r, div) ==
    IF \/ 2 * r > div
       \/ /\ 2 * r = div
          /\ IF IsExactDouble(d) THEN q0 % 2 = 1 ELSE Dec(Abs(d.m), d.k) \in DoublesAbove
    THEN q0 + 1
    ELSE q0

\* |d| in hundredths, rounded as "%.2f" rounds the double.
Hundredths(d) ==
    IF d.k <= 2 THEN Abs(d.m) * Pow10(2 - d.k)
    ELSE RoundHalf(d, Abs(d.m) \div Pow10(d.k - 2), Abs(d.m) % Pow10(d.k - 2), Pow10(d.k - 2))

\* f"{x:.2f}"
Format2(d) ==
    (IF d.m < 0 THEN "-" ELSE "")
        \o NatStr(Hundredths(d) \div 100) \o "." \o Padded(Hundredths(d) % 100, 2)

\* float(f"{x:.2f}")
Round2(d) == PyFloat(Format2(d)).v

\* A cleaning that drops "(" instead of turning it into a minus sign.
CleanNumberUnsigned(s) ==
    Strip(Replace(Replace(Replace(Replace(Replace(s, ",", ""), "₹", ""), "$", ""),
                          "(", ""), ")", ""))

\* str(v).replace(",", "").replace("₹", "").replace("$", "")
\*       .replace("(", "-").replace(")", "").strip()
CleanNumber(s) ==
    Strip(Replace(Replace(Replace(Replace(Replace(s, ",", ""), "₹", ""), "$", ""),
                          "(", "-"), ")", ""))

\* safe_float(v): 0.0 for None, for "" and when float() raises.
safe_float(v) ==
    IF v.t = "null" \/ (v.t = "str" /\ v.s = "") THEN Zero
    ELSE IF PyFloat(CleanNumber(PyStr(v))).ok THEN PyFloat(CleanNumber(PyStr(v))).v
    ELSE Zero

(***************************************************************************)
(* The operations extract_bill_data applies to parsed values, with the     *)
(* exception each raises on a value of another type                        *)
(***************************************************************************)

\* v[key] for a str key
Subscript(v, key) ==
    CASE v.t = "obj" ->
            IF HasKey(v, key) THEN Val(Get(v, key, JNull)) ELSE Raise("'" \o key \o "'")
      [] v.t = "arr" -> Raise("list indices must be integers or slices, not str")
      [] v.t = "str" -> Raise("string indices must be integers, not 'str'")
      [] OTHER -> Raise("'" \o TypeName(v) \o "' object is not subscriptable")

\* v[-1]
Last(v) ==
    CASE v.t = "arr" ->
            IF Len(v.kids) > 0 THEN Val(v.kids[Len(v.kids)])
            ELSE Raise("list index out of range")
      [] v.t = "str" ->
            IF Len(v.s) > 0 THEN Val(JStr(Char(v.s, Len(v.s))))
            ELSE Raise("string index out of range")
      [] v.t = "obj" -> Raise("-1")
      [] OTHER -> Raise("'" \o TypeName(v) \o "' object is not subscriptable")

\* v[0]
First(v) ==
    CASE v.t = "arr" ->
            IF Len(v.kids) > 0 THEN Val(v.kids[1]) ELSE Raise("list index out of range")
      [] v.t = "str" ->
            IF Len(v.s) > 0 THEN Val(JStr(Char(v.s, 1)))
            ELSE Raise("string index out of range")
      [] v.t = "obj" -> Raise("0")
      [] OTHER -> Raise("'" \o TypeName(v) \o "' object is not subscriptable")

\* v[key] = value for a str key
SetItem(v, key, value) ==
    CASE v.t = "obj" -> Val(SetKey(v, key, value))
      [] v.t = "arr" -> Raise("list indices must be integers or slices, not str")
      [] OTHER -> Raise("'" \o TypeName(v) \o "' object does not support item assignment")

\* The elements "for it in v" visits: of a list its elements, of a str its
\* characters, of a dict its keys.
Iterate(v) ==
    CASE v.t = "arr" -> Val(v.kids)
      [] v.t = "str" -> Val([i \in 1..Len(v.s) |-> JStr(Char(v.s, i))])
      [] v.t = "obj" -> Val([i \in 1..Len(v.keys) |-> JStr(v.keys[i])])
      [] OTHER -> Raise("'" \o TypeName(v) \o "' object is not iterable")

\* bool(v), as "or" tests it
Truthy(v) ==
    CASE v.t = "null" -> FALSE
      [] v.t = "false" -> FALSE
      [] v.t = "true" -> TRUE
      [] v.t \in {"int", "float"} -> v.n.m # 0
      [] v.t = "str" -> v.s # ""
      [] v.t = "arr" -> Len(v.kids) > 0
      [] v.t = "obj" -> Len(v.keys) > 0

\* A turn that leaves page_no as the model wrote it.
KeepPageNo(first, page_index) == first

\* page_data["page_no"] = str(page_index)
StampPage(first, page_index) ==
    IF ~first.ok THEN first ELSE SetItem(first.v, "page_no", JStr(NatStr(page_index)))

\* [0] of parsed["pagewise_line_items"]
FirstPage(pages, page_index) ==
    IF ~pages.ok THEN pages ELSE StampPage(First(pages.v), page_index)

\* page_data = parsed["pagewise_line_items"][0]
\* page_data["page_no"] = str(page_index)
PageData(parsed, page_index) == FirstPage(Subscript(parsed, "pagewise_line_items"), page_index)

(***************************************************************************)
(* get_token_usage (app1.py)                                               *)
(***************************************************************************)

\* An attribute of usage_metadata: absent, None or an int.
Missing == [k |-> "missing", n |-> 0]

NoneField == [k |-> "none", n |-> 0]

IntField(n) == [k |-> "int", n |-> n]

\* response.usage_metadata: None, or an object with the three counters.
NoUsage == [present |-> FALSE, prompt_token_count |-> Missing,
            candidates_token_count |-> Missing, total_token_count |-> Missing]

Usage(i, o, t) == [present |-> TRUE, prompt_token_count |-> i,
                   candidates_token_count |-> o, total_token_count |-> t]

\* getattr(usage, name, 0)
GetCounter(field) == IF field.k = "missing" THEN IntField(0) ELSE field

\* input_tokens + output_tokens: the default of the third getattr, which
\* is evaluated whether or not it is used.
SumCounters(input_tokens, output_tokens, total) ==
    IF input_tokens.k = "none" \/ output_tokens.k = "none"
    THEN Raise("unsupported operand type(s) for +: '"
               \o (IF input_tokens.k = "none" THEN "NoneType" ELSE "int") \o "' and '"
               \o (IF output_tokens.k = "none" THEN "NoneType" ELSE "int") \o "'")
    ELSE Val(<<input_tokens, output_tokens,
               IF total.k = "missing" THEN IntField(input_tokens.n + output_tokens.n)
               ELSE total>>)

\* The tuple get_token_usage returns (its third counter may be None), or
\* the TypeError raised in it.
get_token_usage(usage) ==
    IF ~usage.present THEN Val(<<IntField(0), IntField(0), IntField(0)>>)
    ELSE SumCounters(GetCounter(usage.prompt_token_count),
                     GetCounter(usage.candidates_token_count),
                     usage.total_token_count)

\* Totals that are assigned the counters of the turn instead of growing by
\* them.
SetCounters(totals, got) ==
    IF ~got.ok THEN got
    ELSE IF got.v[3].k = "none"
    THEN Raise("unsupported operand type(s) for +=: 'int' and 'NoneType'")
    ELSE Val([input_tokens |-> got.v[1].n,
              output_tokens |-> got.v[2].n,
              total_tokens |-> got.v[3].n])

\* total_input_tokens += inp; total_output_tokens += outp;
\* total_tokens_used += tot
AddCounters(totals, got) ==
    IF ~got.ok THEN got
    ELSE IF got.v[3].k = "none"
    THEN Raise("unsupported operand type(s) for +=: 'int' and 'NoneType'")
    ELSE Val([input_tokens |-> totals.input_tokens + got.v[1].n,
              output_tokens |-> totals.output_tokens + got.v[2].n,
              total_tokens |-> totals.total_tokens + got.v[3].n])

\* inp, outp, tot = get_token_usage(response) and the three additions
AddUsage(totals, usage) == AddCounters(totals, get_token_usage(usage))

(***************************************************************************)
(* Normalization                                                           *)
(***************************************************************************)

\* .strip().replace("\n", " ") of the name "or" chose
StripName(name) ==
    IF ~Truthy(name) THEN Val("")
    ELSE IF name.t # "str"
    THEN Raise("'" \o TypeName(name) \o "' object has no attribute 'strip'")
    ELSE Val(Replace(Strip(name.s), "\n", " "))

\* (it.get("item_name") or "").strip().replace("\n", " ")
ItemName(it) == StripName(Get(it, "item_name", JNull))

NumericFields == {"item_amount", "item_rate", "item_quantity"}

\* amount, rate and qty of an item: safe_float(it.get(field))
ItemNumbers(it) == [f \in NumericFields |-> safe_float(Get(it, f, JNull))]

\* float(f"{x:.2f}") of amount, rate and qty
RoundNumbers(numbers) == [f \in NumericFields |-> Round2(numbers[f])]

\* The dict appended to normalized_items.
NormalizedItem(name, rounded) ==
    [item_name |-> name,
     item_amount |-> rounded["item_amount"],
     item_rate |-> rounded["item_rate"],
     item_quantity |-> rounded["item_quantity"]]

RECURSIVE NormalizeItems(_, _, _)

\* An item put in front of normalized_items instead of at its end.
PrependItem(items, i, acc, numbers, name) ==
    IF ~name.ok THEN name
    ELSE NormalizeItems(items, i + 1,
                        <<NormalizedItem(name.v, RoundNumbers(numbers))>> \o acc)

AppendItem(items, i, acc, numbers, name) ==
    IF ~name.ok THEN name
    ELSE NormalizeItems(items, i + 1,
                        Append(acc, NormalizedItem(name.v, RoundNumbers(numbers))))

\* A loop whose number conversion lets the exception of float() through.
AbortOnMalformed(items, i, acc, numbers) ==
    IF \E f \in NumericFields : ~PyFloat(CleanNumber(PyStr(Get(items[i], f, JNull)))).ok
    THEN Raise("could not convert string to float")
    ELSE IF numbers["item_amount"] = Zero THEN NormalizeItems(items, i + 1, acc)
    ELSE AppendItem(items, i, acc, numbers, ItemName(items[i]))

\* if amount == 0: continue
KeepItem(items, i, acc, numbers) ==
    IF numbers["item_amount"] = Zero THEN NormalizeItems(items, i + 1, acc)
    ELSE AppendItem(items, i, acc, numbers, ItemName(items[i]))

\* The body of "for it in bill_items" from item i on; acc holds
\* normalized_items.
NormalizeItems(items, i, acc) ==
    IF i > Len(items) THEN Val(acc)
    ELSE IF items[i].t # "obj"
    THEN Raise("'" \o TypeName(items[i]) \o "' object has no attribute 'get'")
    ELSE KeepItem(items, i, acc, ItemNumbers(items[i]))

\* The dict appended to output_pages.
OutputPage(page, normalized_items) ==
    IF ~normalized_items.ok THEN normalized_items
    ELSE Val([page_no |-> PyStr(Get(page, "page_no", JStr(""))),
              page_type |-> Get(page, "page_type", JStr("Bill Detail")),
              bill_items |-> normalized_items.v])

NormalizeBillItems(page, bill_items) ==
    IF ~bill_items.ok THEN bill_items
    ELSE OutputPage(page, NormalizeItems(bill_items.v, 1, <<>>))

\* One turn of "for page in pages": the output page, or the exception.
NormalizePage(page) == NormalizeBillItems(page, Iterate(Get(page, "bill_items", JArr(<<>>))))

RECURSIVE NormalizePages(_, _, _, _)

\* A count that grows by the items the model gave, kept or dropped.
CountRawItems(pages, i, output_pages, total_item_count, out) ==
    IF ~out.ok THEN out
    ELSE NormalizePages(pages, i + 1, Append(output_pages, out.v),
                        total_item_count
                            + Len(Iterate(Get(pages[i], "bill_items", JArr(<<>>))).v))

AppendPage(pages, i, output_pages, total_item_count, out) ==
    IF ~out.ok THEN out
    ELSE NormalizePages(pages, i + 1, Append(output_pages, out.v),
                        total_item_count + Len(out.v.bill_items))

\* The loop "for page in pages" from page i on: output_pages and
\* total_item_count, or the exception of the first page that raises.
NormalizePages(pages, i, output_pages, total_item_count) ==
    IF i > Len(pages)
    THEN Val([pagewise_line_items |-> output_pages, total_item_count |-> total_item_count])
    ELSE AppendPage(pages, i, output_pages, total_item_count, NormalizePage(pages[i]))

(***************************************************************************)
(* Bounds                                                                  *)
(***************************************************************************)

\* The largest number of pages split_pdf_to_images returns.
MaxPages == 2

\* The largest counter a page call reports in its usage metadata.
MaxTokens == 2

\* The longest run of spaces between a trailing comma and the closing
\* character after it.
MaxSpaces == 1

(***************************************************************************)
(* What the collaborators hand to extract_bill_data                        *)
(***************************************************************************)

Quoted(s) == "\"" \o s \o "\""

\* The texts of the JSON values the extraction schema of the prompt names;
\* every argument is itself the text of a JSON value.
ItemText(name, amount, rate, quantity) ==
    "{\"item_name\":" \o name \o ",\"item_amount\":" \o amount
        \o ",\"item_rate\":" \o rate \o ",\"item_quantity\":" \o quantity \o "}"

PageText(page_no, page_type, items) ==
    "{\"page_no\":" \o page_no \o ",\"page_type\":" \o page_type
        \o ",\"bill_items\":[" \o items \o "]}"

ResponseText(pages) == "{\"pagewise_line_items\":[" \o pages \o "]}"

\* A clean response: three items, the second with amount "0".
TextClean ==
    ResponseText(PageText("\"7\"", "\"Pharmacy\"",
        ItemText("\"Paracetamol\\n500mg\"", "\"1,200.5\"", "\"600\"", "\"2\"")
        \o "," \o ItemText("\"Subtotal\"", "\"0\"", "null", "\"\"")
        \o "," \o ItemText("\"Syrup\"", "80", "\"40\"", "2")))

\* A fenced response with trailing commas before "}" and "]".
TextFenced ==
    Fence \o "json\n{\"pagewise_line_items\":[{\"page_no\":\"1\",\"page_type\":\"Final Bill\","
        \o "\"bill_items\":[{\"item_name\":\" X-Ray \",\"item_amount\":45.125,"
        \o "\"item_rate\":\"(45.125)\",\"item_quantity\":1,},],},]}\n" \o Fence

\* Amounts below half a hundredth and an amount of exactly half a hundredth.
TextTiny ==
    ResponseText(PageText("\"1\"", "\"Bill Detail\"",
        ItemText("\"Swab\"", "0.004", "0.004", "1")
        \o "," \o ItemText("\"Gauze\"", "\"-0.0049\"", "\"x\"", "true")
        \o "," \o ItemText("\"Tape\"", "0.005", "\"$ 3\"", "2")))

\* Two elements in pagewise_line_items.
TextTwoPages ==
    ResponseText(PageText("\"1\"", "\"Bill Detail\"",
                          ItemText("\"Bed\"", "300", "150", "2"))
                 \o "," \o
                 PageText("\"2\"", "\"Final Bill\"",
                          ItemText("\"Total\"", "300", "0", "0")))

\* A page_type outside the three of the prompt; prose around the object.
TextInvoice ==
    "Here is the result: "
        \o ResponseText(PageText("\"4\"", "\"Invoice\"",
                                 ItemText("\"Syringe\"", "\"₹12\"", "\"6\"", "\"2\"")))
        \o " Done."

\* An element of bill_items that is not an object.
TextBadItem ==
    ResponseText(PageText("\"1\"", "\"Pharmacy\"",
        ItemText("\"Mask\"", "5", "5", "1") \o ",\"Total\""))

\* An item_name that is a number, on an item that is kept.
TextBadName ==
    ResponseText(PageText("\"1\"", "\"Pharmacy\"", ItemText("42", "5", "5", "1")))

\* The texts response.text takes in the model of the whole request: those
\* above; a page with neither page_type nor bill_items and with a page_no
\* that is not a string; prose; valid JSON that is not an object; an empty
\* pagewise_line_items; no pagewise_line_items.
ModelTexts ==
    {TextClean, TextFenced, TextTiny, TextTwoPages, TextInvoice, TextBadItem, TextBadName,
     "{\"pagewise_line_items\":[{\"page_no\":9}]}",
     "I cannot read this page.",
     "[]",
     "{\"pagewise_line_items\":[]}",
     "{\"pages\":[]}"}

\* The values response.usage_metadata takes in the model.
Usages ==
    {NoUsage,
     Usage(IntField(MaxTokens), IntField(1), IntField(MaxTokens + 1)),
     Usage(IntField(1), IntField(MaxTokens), Missing),
     Usage(IntField(1), NoneField, IntField(1)),
     Usage(IntField(1), IntField(1), NoneField)}

\* str(e) of the exceptions the upload and the model call raise.
ModelErrors == {"503 UNAVAILABLE. The model is overloaded."}

\* str(e) of the exceptions raised before the page loop: b64decode,
\* download_file, split_pdf_to_images.
InputErrors == {"Incorrect padding", "404 Client Error: Not Found for url"}

\* What one turn of the page loop gets from the model collaborator:
\* an exception of files.upload, an exception of generate_content, a
\* response whose text is None, or a response with a text.
Outcome(kind, text, usage, err) == [kind |-> kind, text |-> text, usage |-> usage, err |-> err]

\* Every text comes without usage metadata; the clean response comes with
\* each of the usage values as well (app1.py alone reads them).
Outcomes(v) ==
    {Outcome("upload_error", "", NoUsage, e) : e \in ModelErrors}
    \cup {Outcome("call_error", "", NoUsage, e) : e \in ModelErrors}
    \cup {Outcome("no_text", "", NoUsage, "")}
    \cup {Outcome("text", t, NoUsage, "") : t \in ModelTexts}
    \cup {Outcome("text", TextClean, u, "") : u \in IF v = "app1" THEN Usages ELSE {NoUsage}}

(***************************************************************************)
(* The texts of the model of the parsing steps                            *)
(***************************************************************************)

\* What the string values of the documents hold: plain text, fence
\* markers, a language tag, commas before closing characters, braces.
StringContents == {"x", Fence, Fence \o "json", ",}", ", ]", "json", "}{"}

RECURSIVE Spaces(_)
Spaces(n) == IF n = 0 THEN "" ELSE " " \o Spaces(n - 1)

\* A trailing comma and the spaces after it.
TrailingCommas == {"," \o Spaces(n) : n \in 0..MaxSpaces}

\* An object with a string value and a list; tc stands before "]" and "}".
Doc(s, tc) == "{\"a\":" \o Quoted(s) \o ",\"b\":[1" \o tc \o "]" \o tc \o "}"

\* A response of one page with one item; tc stands before every "]" and "}".
PageDoc(s, tc) ==
    "{\"pagewise_line_items\":[{\"bill_items\":[{\"item_name\":" \o Quoted(s)
        \o ",\"item_amount\":10" \o tc \o "}" \o tc \o "]" \o tc \o "}" \o tc \o "]" \o tc \o "}"

\* The valid JSON object texts.
ObjectDocs == {Doc(s, "") : s \in StringContents} \cup {PageDoc("Bed", ""), "{}"}

\* Valid JSON texts that are not objects and hold no brace.
PlainDocs == {"[]", "[1, 2]", "12", "null", "true", Quoted("abc")}

\* ```json, newline, J, newline, ```
Fenced(J) == Fence \o "json\n" \o J \o "\n" \o Fence

\* Prose before the first "{" and after the last "}".
InProse(J) == "Result: " \o J \o " Done."

\* A text with trailing commas, and the text without them.
TrailingCommaCases ==
    {[text |-> Doc(s, tc), clean |-> Doc(s, "")] : s \in StringContents, tc \in TrailingCommas}
    \cup {[text |-> InProse(Doc(s, tc)), clean |-> Doc(s, "")] :
            s \in StringContents, tc \in TrailingCommas}
    \cup {[text |-> PageDoc("Bed", tc), clean |-> PageDoc("Bed", "")] : tc \in TrailingCommas}

\* An object in a fenced code block with a language tag, and the object.
FencedCases == {[text |-> Fenced(J), clean |-> J] : J \in ObjectDocs}

\* Texts with no "{", with no "}", or with neither.
BracelessTexts ==
    PlainDocs
    \cup {Fenced(J) : J \in PlainDocs}
    \cup {"I cannot read this page.", "[1,]", "{\"a\":1", "\"a\":1}", "}", ""}

\* The texts response.text takes in the model of the parsing steps.
ParseTexts ==
    ObjectDocs \cup BracelessTexts
    \cup {c.text : c \in TrailingCommaCases}
    \cup {c.text : c \in FencedCases}
    \cup {"json\n" \o PageDoc("Bed", ""), Fence \o "\n" \o PageDoc("Bed", "") \o "\n" \o Fence,
          InProse(PageDoc("Bed", ""))}

(***************************************************************************)
(* The request handler                                                     *)
(***************************************************************************)

VARIABLES
    variant,         \* "app" (app.py) or "app1" (app1.py, with token_usage)
    pc,              \* "idle"; in a turn of the page loop: "loop" (its top),
                     \* "parse", "repair", "page"; "done" (response returned)
    npages,          \* len(page_images)
    page_index,      \* the pages the loop has finished
    raw,             \* raw, the stripped text of the turn
    parsed,          \* parsed, the value json.loads returned in the turn
    combined_pages,  \* the list combined_pages
    totals,          \* total_input_tokens, total_output_tokens, total_tokens_used
    response,        \* the JSON body returned
    status,          \* the HTTP status returned, 0 before
    calls            \* history: what each turn of the page loop got from the model

vars ==
    <<variant, pc, npages, page_index, raw, parsed, combined_pages, totals,
      response, status, calls>>

NoResponse == [pending |-> TRUE]

NoTotals == [input_tokens |-> 0, output_tokens |-> 0, total_tokens |-> 0]

\* An except handler that hands back the pages extracted so far.
FailureWithPages(err) ==
    [is_success |-> FALSE, error |-> err,
     data |-> [pagewise_line_items |-> combined_pages]]

\* The body of the except handler of extract_bill_data.
Failure(err) ==
    [is_success |-> FALSE, error |-> err,
     trace |-> "Traceback (most recent call last): " \o err]

\* The body returned at the end of the try block.
Success(v, data, tot) ==
    IF v = "app1"
    THEN [is_success |-> TRUE,
          token_usage |-> [total_tokens |-> tot.total_tokens,
                           input_tokens |-> tot.input_tokens,
                           output_tokens |-> tot.output_tokens],
          data |-> data]
    ELSE [is_success |-> TRUE, data |-> data]

Init ==
    /\ variant \in {"app", "app1"}
    /\ pc = "idle"
    /\ npages = 0
    /\ page_index = 0
    /\ raw = ""
    /\ parsed = JNull
    /\ combined_pages = <<>>
    /\ totals = NoTotals
    /\ response = NoResponse
    /\ status = 0
    /\ calls = <<>>

\* An exception reaches "except Exception as e".
Fails(err) ==
    /\ response' = Failure(err)
    /\ status' = 500
    /\ pc' = "done"

\* A JSON body without "document": the early return.
RequestMissingDocument ==
    /\ pc = "idle"
    /\ pc' = "done"
    /\ response' = [is_success |-> FALSE, error |-> "Missing 'document'"]
    /\ status' = 400
    /\ UNCHANGED <<variant, npages, page_index, raw, parsed, combined_pages, totals, calls>>

\* The document cannot be decoded, downloaded or split: the except handler.
RequestInputError ==
    /\ pc = "idle"
    /\ \E e \in InputErrors : Fails(e)
    /\ UNCHANGED <<variant, npages, page_index, raw, parsed, combined_pages, totals, calls>>

\* The document is stored and split into n page images.
RequestAccepted ==
    /\ pc = "idle"
    /\ \E n \in 0..MaxPages : npages' = n
    /\ pc' = "loop"
    /\ UNCHANGED <<variant, page_index, raw, parsed, combined_pages, totals, response,
                   status, calls>>

\* The top of a turn of "for page_index, img_path in enumerate(page_images,
\* start=1)": the upload, the model call and the stripping of its text.
CallModelWith(outcomes) ==
    /\ pc = "loop"
    /\ page_index < npages
    /\ \E o \in outcomes :
         /\ calls' = Append(calls, o)
         /\ IF o.kind \in {"upload_error", "call_error"}
            THEN Fails(o.err) /\ UNCHANGED raw
            ELSE IF o.kind = "no_text"
            THEN Fails("'NoneType' object has no attribute 'strip'") /\ UNCHANGED raw
            ELSE /\ raw' = StripFences(o.text)
                 /\ pc' = "parse"
                 /\ UNCHANGED <<response, status>>
    /\ UNCHANGED <<variant, npages, page_index, parsed, combined_pages, totals>>

CallModel == CallModelWith(Outcomes(variant))

\* try: parsed = json.loads(raw)
DirectParse ==
    /\ pc = "parse"
    /\ IF JsonLoads(raw).ok THEN parsed' = JsonLoads(raw).v /\ pc' = "page"
       ELSE pc' = "repair" /\ UNCHANGED parsed
    /\ UNCHANGED <<variant, npages, page_index, raw, combined_pages, totals, response,
                   status, calls>>

\* A repair that sends a page whose text still does not parse back to the
\* top of its turn, where the model is called for it again.
RetryPage(r) ==
    IF r.ok THEN parsed' = r.v /\ pc' = "page" /\ UNCHANGED <<response, status>>
    ELSE pc' = "loop" /\ UNCHANGED <<parsed, response, status>>

\* r is what json.loads(cleaned) gave.
TryRepaired(r) ==
    IF r.ok THEN parsed' = r.v /\ pc' = "page" /\ UNCHANGED <<response, status>>
    ELSE Fails(r.err) /\ UNCHANGED parsed

\* except: the cleanup and parsed = json.loads(cleaned)
Repair ==
    /\ pc = "repair"
    /\ TryRepaired(JsonLoads(RepairText(raw)))
    /\ UNCHANGED <<variant, npages, page_index, raw, combined_pages, totals, calls>>

\* counted is what the token tracking of app1.py gave.
TrackUsage(counted) ==
    IF ~counted.ok THEN Fails(counted.err) /\ UNCHANGED <<page_index, totals>>
    ELSE /\ totals' = counted.v
         /\ page_index' = page_index + 1
         /\ pc' = "loop"
         /\ UNCHANGED <<response, status>>

\* page is page_data, or the exception raised for it.
AppendPageData(page) ==
    IF ~page.ok THEN Fails(page.err) /\ UNCHANGED <<page_index, combined_pages, totals>>
    ELSE /\ combined_pages' = Append(combined_pages, page.v)
         /\ TrackUsage(IF variant = "app1"
                       THEN AddUsage(totals, calls[Len(calls)].usage)
                       ELSE Val(totals))

\* The rest of the turn: page_data, combined_pages.append(page_data) and,
\* in app1.py, the token tracking.
UsePage ==
    /\ pc = "page"
    /\ AppendPageData(PageData(parsed, page_index + 1))
    /\ UNCHANGED <<variant, npages, raw, parsed, calls>>

\* data is what the normalization gave.
Respond(data) ==
    IF data.ok
    THEN response' = Success(variant, data.v, totals) /\ status' = 200
    ELSE response' = Failure(data.err) /\ status' = 500

\* After the page loop: the normalization and the response.
Finish ==
    /\ pc = "loop"
    /\ page_index = npages
    /\ Respond(NormalizePages(combined_pages, 1, <<>>, 0))
    /\ pc' = "done"
    /\ UNCHANGED <<variant, npages, page_index, raw, parsed, combined_pages, totals, calls>>

Next ==
    \/ RequestMissingDocument
    \/ RequestInputError
    \/ RequestAccepted
    \/ CallModel
    \/ DirectParse
    \/ Repair
    \/ UsePage
    \/ Finish

Spec == Init /\ [][Next]_vars

(***************************************************************************)
(* The parsing steps on their own: a document of one page whose model      *)
(* response is any of ParseTexts                                           *)
(***************************************************************************)

ParseInit ==
    /\ variant \in {"app", "app1"}
    /\ pc = "loop"
    /\ npages = 1
    /\ page_index = 0
    /\ raw = ""
    /\ parsed = JNull
    /\ combined_pages = <<>>
    /\ totals = NoTotals
    /\ response = NoResponse
    /\ status = 0
    /\ calls = <<>>

\* What the page call of the document gets: any of ParseTexts, without
\* usage metadata.
ParseOutcomes == {Outcome("text", t, NoUsage, "") : t \in ParseTexts}

CallModelParse == CallModelWith(ParseOutcomes)

ParseNext ==
    \/ CallModelParse
    \/ DirectParse
    \/ Repair
    \/ UsePage
    \/ Finish

ParseSpec == ParseInit /\ [][ParseNext]_vars

(***************************************************************************)
(* Properties of the response                                              *)
(***************************************************************************)

Succeeded == pc = "done" /\ response.is_success

\* The success shape and the failure shape of the body.
SuccessShape ==
    /\ response.is_success = TRUE
    /\ "data" \in DOMAIN response
    /\ "error" \notin DOMAIN response

FailureShape ==
    /\ response.is_success = FALSE
    /\ "error" \in DOMAIN response
    /\ response.error # ""
    /\ "data" \notin DOMAIN response

\* page_data of turn i, from what the model gave in that turn.
ExtractedPage(i) ==
    IF calls[i].kind \in {"upload_error", "call_error"} THEN Raise(calls[i].err)
    ELSE IF calls[i].kind = "no_text" THEN Raise("no text")
    ELSE LET got == ParseModelText(calls[i].text)
         IN  IF got.ok THEN PageData(got.v, i) ELSE Raise(got.err)

\* The processing of page i fails: the call, the parsing, the page data,
\* the token tracking or the normalization raises.
PageFails(i) ==
    LET page == ExtractedPage(i)
    IN  \/ ~page.ok
        \/ ~NormalizePage(page.v).ok
        \/ variant = "app1" /\ ~AddUsage(NoTotals, calls[i].usage).ok

\* C1: a returned response has the success shape (is_success true, data,
\* no error) or the failure shape (is_success false, a non-empty error, no
\* data key), and it has the failure shape, so none of the pages extracted
\* before, whenever the processing of a page failed.
C1_TwoShapes ==
    pc = "done" =>
        /\ SuccessShape \/ FailureShape
        /\ FailureShape \/ \A i \in 1..Len(calls) : ~PageFails(i)

\* A second page fails after the first was extracted.
C1_Witness ==
    /\ pc = "done"
    /\ Len(calls) = 2
    /\ Len(combined_pages) = 1
    /\ PageFails(2)
    /\ FailureShape

\* C2: a success response for N pages has N elements in
\* pagewise_line_items; element i is what page i's model response gives
\* and its page_no is str(i), whatever page_no the model wrote.
C2_PagesInOrder ==
    Succeeded =>
        /\ Len(calls) = npages
        /\ Len(response.data.pagewise_line_items) = npages
        /\ \A i \in 1..npages :
             /\ response.data.pagewise_line_items[i].page_no = NatStr(i)
             /\ response.data.pagewise_line_items[i] = NormalizePage(ExtractedPage(i).v).v

\* Two pages with different responses, whose own page_no are "7" and "4".
C2_Witness ==
    /\ Succeeded
    /\ npages = 2
    /\ calls[1].text = TextClean
    /\ calls[2].text = TextInvoice

RECURSIVE SumOfItems(_, _)
SumOfItems(pages, i) ==
    IF i > Len(pages) THEN 0 ELSE Len(pages[i].bill_items) + SumOfItems(pages, i + 1)

\* The items the model gave for extracted page p.
RawItems(p) == Iterate(Get(combined_pages[p], "bill_items", JArr(<<>>))).v

\* C3: in a success response total_item_count is the sum of the lengths of
\* the emitted bill_items; dropped items are not counted.
C3_TotalItemCount ==
    Succeeded =>
        response.data.total_item_count = SumOfItems(response.data.pagewise_line_items, 1)

\* Two pages with items, one of them with a dropped item.
C3_Witness ==
    /\ Succeeded
    /\ npages = 2
    /\ response.data.total_item_count >= 2
    /\ \E p \in 1..npages : Len(RawItems(p)) > Len(response.data.pagewise_line_items[p].bill_items)

\* The normalized amount of a raw item.
Amount(it) == safe_float(Get(it, "item_amount", JNull))

\* The raw items with a non-zero normalized amount, in their order.
Retained(items) == SelectSeq(items, LAMBDA it : Amount(it) # Zero)

\* C4: the normalized items of every page are the raw items whose
\* normalized amount is not 0.0, each once and in the same order.
C4_RetainedInOrder ==
    Succeeded =>
        \A p \in 1..npages :
            LET kept == Retained(RawItems(p))
                out == response.data.pagewise_line_items[p].bill_items
            IN  /\ Len(out) = Len(kept)
                /\ \A j \in 1..Len(kept) :
                     out[j] = NormalizedItem(ItemName(kept[j]).v, RoundNumbers(ItemNumbers(kept[j])))

\* A page of three different raw items whose second item is dropped.
C4_Witness ==
    /\ Succeeded
    /\ \E p \in 1..npages :
         /\ Len(RawItems(p)) = 3
         /\ Amount(RawItems(p)[2]) = Zero
         /\ Len(response.data.pagewise_line_items[p].bill_items) = 2
         /\ response.data.pagewise_line_items[p].bill_items[1]
                # response.data.pagewise_line_items[p].bill_items[2]

\* C5: every item of a success response has an emitted item_amount, the
\* amount rounded to two decimals, that is not 0.
C5_NoZeroAmount ==
    Succeeded =>
        \A p \in 1..Len(response.data.pagewise_line_items) :
            \A j \in 1..Len(response.data.pagewise_line_items[p].bill_items) :
                response.data.pagewise_line_items[p].bill_items[j].item_amount # Zero

\* The counters of a page call: (0, 0, 0) without usage metadata.
CallCounters(o) ==
    IF ~o.usage.present THEN <<0, 0, 0>>
    ELSE <<o.usage.prompt_token_count.n, o.usage.candidates_token_count.n,
           IF o.usage.total_token_count.k = "missing"
           THEN o.usage.prompt_token_count.n + o.usage.candidates_token_count.n
           ELSE o.usage.total_token_count.n>>

RECURSIVE SumOfCounters(_, _)
SumOfCounters(k, i) ==
    IF i > Len(calls) THEN 0 ELSE CallCounters(calls[i])[k] + SumOfCounters(k, i + 1)

\* C6: in a success response of app1.py each total of token_usage is the
\* sum of that counter over the page calls, a call without usage metadata
\* counting (0, 0, 0), and is a non-negative integer.
C6_TokenTotals ==
    (Succeeded /\ variant = "app1") =>
        /\ response.token_usage.input_tokens = SumOfCounters(1, 1)
        /\ response.token_usage.output_tokens = SumOfCounters(2, 1)
        /\ response.token_usage.total_tokens = SumOfCounters(3, 1)
        /\ response.token_usage.input_tokens \in Nat
        /\ response.token_usage.output_tokens \in Nat
        /\ response.token_usage.total_tokens \in Nat

\* Two page calls, the first without usage metadata, the second with.
C6_Witness ==
    /\ Succeeded
    /\ variant = "app1"
    /\ npages = 2
    /\ ~calls[1].usage.present
    /\ calls[2].usage.present
    /\ response.token_usage.total_tokens > 0

(***************************************************************************)
(* Properties of the parsing steps                                        *)
(***************************************************************************)

\* The text of the page call, once made.
ResponseTextIs(t) == Len(calls) = 1 /\ calls[1].text = t

\* The parsing steps have given a value.
HasParsed == Len(calls) = 1 /\ pc = "page"

\* C7: for a text that is itself valid JSON, the value the parsing steps
\* give is the value json.loads gives for the text, also when its strings
\* hold fence markers or commas before braces.
C7_ValidJsonUnchanged ==
    \A t \in ParseTexts :
        (ResponseTextIs(t) /\ JsonLoads(t).ok /\ HasParsed) => parsed = JsonLoads(t).v

\* C8: for a valid JSON object text J, the parsing steps applied to J in a
\* fenced block with the json tag give the value of J.
C8_FencedBlockUnchanged ==
    \A c \in FencedCases :
        (ResponseTextIs(c.text) /\ HasParsed) => parsed = JsonLoads(c.clean).v

\* C9: for a text that is a valid JSON object but for trailing commas
\* before "}" or "]", with or without prose around it, the parsing steps
\* give the value of the text without those commas, and the repair runs
\* only after json.loads has failed on the text.
C9_TrailingCommasRemoved ==
    /\ \A c \in TrailingCommaCases :
         (ResponseTextIs(c.text) /\ HasParsed) => parsed = JsonLoads(c.clean).v
    /\ pc = "repair" => ~JsonLoads(raw).ok

\* A text without "{" or without "}".
NoBracePair(t) == Find(t, "{") = -1 \/ RFind(t, "}") = -1

\* C10: for a text with no "{" ... "}" pair the parsing steps fail and
\* give no value to the rest of the turn.
C10_NoBracePairFails ==
    \A t \in ParseTexts : (ResponseTextIs(t) /\ NoBracePair(t)) => ~HasParsed


(***************************************************************************)
(* The numeric fields on their own: a document of one page whose model     *)
(* response holds one item, or two, with any of FieldTexts in its numeric  *)
(* fields                                                                  *)
(***************************************************************************)

\* The longest run of digits in a numeric field.
MaxDigits == 4

\* Strings that are not a number after the cleaning of safe_float.
MalformedNumbers ==
    {"not a number", "abc", "1.2.3", "12(3)", "()", "$", ",", "((5))", "5 0", "-"}

\* JSON texts of field values that are no number: null, the empty string,
\* the strings above, booleans, lists and objects.
MalformedFields ==
    {"null", "\"\"", "true", "false", "[]", "[1]", "{}", "{\"a\":1}"}
    \cup {Quoted(s) : s \in MalformedNumbers}

\* JSON texts of field values that are a number, as a number or a string.
NumberFields == {"5", "0.5", "-3", "0", "\" 7 \"", "\"1,200.5\"", "\"+2\"", "\"0.0\""}

\* The digits of n in groups of three with "," between them.
RECURSIVE Commas(_)
Commas(digits) ==
    IF Len(digits) <= 3 THEN digits
    ELSE Commas(SubSeq(digits, 1, Len(digits) - 3)) \o ","
             \o SubSeq(digits, Len(digits) - 2, Len(digits))

\* The integers written in the fields: 0, the largest of each length and
\* 12 followed by zeros.
IntegerValues ==
    {0} \cup {Pow10(d) - 1 : d \in 1..MaxDigits} \cup {12 * Pow10(d - 2) : d \in 2..MaxDigits}

\* The digits of n, with thousands separators when sep.
DigitsText(n, sep) == IF sep THEN Commas(NatStr(n)) ELSE NatStr(n)

\* Digits with or without thousands separators, with or without a currency
\* prefix, with or without enclosing parentheses, and the value meant.
IntegerCases ==
    {[s |-> open \o prefix \o DigitsText(n, sep) \o (IF open = "(" THEN ")" ELSE ""),
      value |-> IF open = "(" THEN 0 - n ELSE n] :
        open \in {"", "("}, prefix \in {"", "₹", "$"}, sep \in BOOLEAN, n \in IntegerValues}
    \cup {[s |-> prefix \o "(" \o DigitsText(n, TRUE) \o ")", value |-> 0 - n] :
            prefix \in {"₹", "$"}, n \in IntegerValues}

\* A response of one page: an item of amount 5 with v as rate and quantity,
\* then an item with v as amount; a comma after the last item when tc is
\* one.
FieldText(v, tc) ==
    ResponseText(PageText("\"1\"", "\"Bill Detail\"",
        ItemText("\"Bed\"", "5", v, v) \o "," \o ItemText("\"Fee\"", v, "1", "1") \o tc))

\* The texts response.text takes in the model of the numeric fields.
FieldTexts ==
    {FieldText(v, "") : v \in MalformedFields \cup NumberFields}
    \cup {FieldText(Quoted(c.s), "") : c \in IntegerCases}
    \cup {FieldText("\"abc\"", ","), FieldText("\"(12)\"", ", ")}

FieldOutcomes == {Outcome("text", t, NoUsage, "") : t \in FieldTexts}

CallModelField == CallModelWith(FieldOutcomes)

FieldNext ==
    \/ CallModelField
    \/ DirectParse
    \/ Repair
    \/ UsePage
    \/ Finish

FieldSpec == ParseInit /\ [][FieldNext]_vars

(***************************************************************************)
(* Properties of the numeric fields                                        *)
(***************************************************************************)

\* A float, as the model holds it.
IsFloat(x) == DOMAIN x = {"m", "k"} /\ x.m \in Int /\ x.k \in Nat

\* The value of a field is None, "" or a string that is no number.
IsMalformed(v) ==
    \/ v.t = "null"
    \/ v.t = "str" /\ v.s = ""
    \/ v.t = "str" /\ v.s \in MalformedNumbers

\* The request of the one page has returned.
FieldDone == Len(calls) = 1 /\ pc = "done"

\* C11: safe_float gives a float for every value and never raises: the
\* request succeeds whatever the numeric fields hold; for None, for "" and
\* for a string that is no number after cleaning it gives 0.0, so such a
\* rate or quantity is emitted as 0.0 and an item with such an amount is
\* dropped as an item of amount 0.0 is.
C11_SafeFloatTotal ==
    FieldDone =>
        /\ Succeeded
        /\ \A j \in 1..Len(RawItems(1)) : \A f \in NumericFields :
             /\ IsFloat(safe_float(Get(RawItems(1)[j], f, JNull)))
             /\ IsMalformed(Get(RawItems(1)[j], f, JNull))
                    => safe_float(Get(RawItems(1)[j], f, JNull)) = Zero
        /\ LET out == response.data.pagewise_line_items[1].bill_items
           IN  /\ Len(out) >= 1
               /\ \A f \in {"item_rate", "item_quantity"} :
                    /\ IsFloat(out[1][f])
                    /\ IsMalformed(Get(RawItems(1)[1], f, JNull)) => out[1][f] = Zero
               /\ IsMalformed(Get(RawItems(1)[2], "item_amount", JNull)) => Len(out) = 1

\* A string that is no number in the three fields: the request succeeds.
C11_Witness ==
    /\ FieldDone
    /\ Succeeded
    /\ Get(RawItems(1)[1], "item_rate", JNull) = JStr("not a number")
    /\ response.data.pagewise_line_items[1].bill_items[1]["item_rate"] = Zero
    /\ Len(response.data.pagewise_line_items[1].bill_items) = 1

\* The float of an integer.
IntegerFloat(n) == [m |-> n, k |-> 0]

\* The rate of the first item, as the model wrote it.
RawRate == Get(RawItems(1)[1], "item_rate", JNull)

\* C12: for a string of digits with or without "," separators, a "₹" or
\* "$" prefix and enclosing parentheses, safe_float gives the integer the
\* digits write, negated exactly when the string is parenthesized: such a
\* rate, quantity and amount are emitted as that value.
C12_IntegerStrings ==
    \A c \in IntegerCases :
        (FieldDone /\ RawRate = JStr(c.s)) =>
            /\ Succeeded
            /\ safe_float(JStr(c.s)) = IntegerFloat(c.value)
            /\ LET out == response.data.pagewise_line_items[1].bill_items
               IN  /\ out[1]["item_rate"] = IntegerFloat(c.value)
                   /\ out[1]["item_quantity"] = IntegerFloat(c.value)
                   /\ Len(out) = (IF c.value = 0 THEN 1 ELSE 2)
                   /\ c.value # 0 => out[2]["item_amount"] = IntegerFloat(c.value)

\* "(₹1,200)" is emitted as -1200.0.
C12_Witness ==
    /\ FieldDone
    /\ RawRate = JStr("(₹1,200)")
    /\ response.data.pagewise_line_items[1].bill_items[1]["item_rate"] = IntegerFloat(0 - 1200)

\* The page types the prompt allows.
PageTypes == {JStr("Bill Detail"), JStr("Final Bill"), JStr("Pharmacy")}

\* C13: in every success response each page_type is "Bill Detail",
\* "Final Bill" or "Pharmacy", whatever value the model gave.
C13_PageTypeEnum ==
    Succeeded =>
        \A p \in 1..Len(response.data.pagewise_line_items) :
            response.data.pagewise_line_items[p].page_type \in PageTypes

\* C14: within one request the model is invoked at most once per page and
\* in increasing page order: an invocation is the only change to the
\* history, it is made for the page after the last one invoked, when every
\* page before it has been parsed and appended and nothing has failed; so a
\* failed page is not retried and no page follows it.  A success response
\* comes after exactly N invocations for a document of N pages.
C14_OneCallPerPage ==
    /\ [](Len(calls) <= npages)
    /\ [](Succeeded => Len(calls) = npages)
    /\ [][calls' # calls =>
            /\ Len(calls') = Len(calls) + 1
            /\ SubSeq(calls', 1, Len(calls)) = calls
            /\ Len(calls) = page_index
            /\ Len(combined_pages) = page_index
            /\ response = NoResponse]_vars

\* The first page of a two-page document gave a text that does not parse:
\* the request has failed after one invocation.
C14_Witness ==
    /\ pc = "done"
    /\ ~response.is_success
    /\ npages = 2
    /\ Len(calls) = 1
    /\ calls[1].kind = "text"

\* The elements of pagewise_line_items in the response to call i.
Elements(i) == Subscript(ParseModelText(calls[i].text).v, "pagewise_line_items").v.kids

\* The items of a page element that the normalization keeps.
KeptOf(element) == Retained(Iterate(Get(element, "bill_items", JArr(<<>>))).v)

RECURSIVE SumOfLengths(_, _)
SumOfLengths(seqs, i) ==
    IF i > Len(seqs) THEN 0 ELSE Len(seqs[i]) + SumOfLengths(seqs, i + 1)

\* The first element of each call's pagewise_line_items, up to call i.
RECURSIVE FirstElements(_)
FirstElements(i) == IF i = 0 THEN <<>> ELSE Append(FirstElements(i - 1), Elements(i)[1])

\* The items the normalization keeps of each of the elements, from the i-th.
RECURSIVE KeptOfEach(_, _)
KeptOfEach(elements, i) ==
    IF i > Len(elements) THEN <<>> ELSE <<KeptOf(elements[i])>> \o KeptOfEach(elements, i + 1)

\* out is made of the elements first, whose retained items are kept.
MadeOf(out, first, kept, count) ==
    /\ Len(out) = Len(first)
    /\ \A i \in 1..Len(first) :
         /\ out[i].page_type = Get(first[i], "page_type", JStr("Bill Detail"))
         /\ Len(out[i].bill_items) = Len(kept[i])
         /\ \A j \in 1..Len(kept[i]) :
              /\ out[i].bill_items[j]["item_name"] = ItemName(kept[i][j]).v
              /\ out[i].bill_items[j]["item_amount"] = Round2(Amount(kept[i][j]))
    /\ count = SumOfLengths(kept, 1)

FirstMakes(out, first, count) == MadeOf(out, first, KeptOfEach(first, 1), count)

\* C15: a success response has one page per page call, made from the first
\* element of that call's pagewise_line_items alone: its page_type and its
\* retained items.  Further elements raise nothing and their items are not
\* in total_item_count.
C15_FirstElementOnly ==
    Succeeded =>
        FirstMakes(response.data.pagewise_line_items, FirstElements(Len(calls)),
                   response.data.total_item_count)

\* A response of two elements, each with one item of non-zero amount: the
\* success response counts one item.
C15_Witness ==
    /\ Succeeded
    /\ npages = 1
    /\ calls[1].text = TextTwoPages
    /\ Len(Elements(1)) = 2
    /\ response.data.total_item_count = 1
=============================================================================
